---------------------------- MODULE Spec2Model ----------------------------
(***************************************************************************)
(* A model of the 0chan-webm user script (version 0.5.5): the per-link     *)
(* embedding pipeline embedVideo, its localStorage cache, the title scan   *)
(* parseTitle and the page around them.                                    *)
(*                                                                         *)
(* A JavaScript string is the sequence of its character codes, so that key *)
(* composition ("thumb_v" + THUMB_VERSION + "_" + url), message            *)
(* composition ("HTTP " + status) and startsWith are computed, not         *)
(* assumed.  The text of each literal is given in the comment beside it.   *)
(***************************************************************************)
EXTENDS Integers, Sequences, FiniteSets

VARIABLES
    THUMB_VERSION,  \* the installed script's THUMB_VERSION
    localStorage,   \* the origin's localStorage: a function key -> string
    dom,            \* per link: the <a> element, or the player that replaced it
    attempt,        \* per link: the embedVideo call of this page load
    handled,        \* handlePost has run on the post in this page load
    last,           \* the handler that ran last, and what it met
    call            \* a function of the script applied on its own: its
                    \* name, its arguments, where it is and what it returned

vars == <<THUMB_VERSION, localStorage, dom, attempt, handled, last, call>>

-----------------------------------------------------------------------------
(* Bounds and program constants *)

\* The last script version modelled: THUMB_VERSION runs from 2 to MaxVersion.
MaxVersion == 3

LOAD_BYTES1 == 150 * 1024

LOAD_BYTES2 == 600 * 1024

\* null and undefined: no string holds a negative character code.
Null == <<-1>>

Undefined == <<-2>>

-----------------------------------------------------------------------------
(* Strings *)

Max(a, b) == IF a > b THEN a ELSE b

Min(a, b) == IF a < b THEN a ELSE b

RECURSIVE NumToString(_)
\* String(n) for a non-negative integer n: its decimal digits ("0" is 48).
NumToString(n) ==
    IF n < 10 THEN <<48 + n>>
    ELSE NumToString(n \div 10) \o <<48 + (n % 10)>>

\* s.startsWith(p)
StartsWith(s, p) ==
    /\ Len(p) <= Len(s)
    /\ SubSeq(s, 1, Len(p)) = p

\* if (s): null, undefined and "" are falsy.
Truthy(s) == s # Null /\ s # Undefined /\ s # <<>>

\* "thumb_v"
S_thumb_v ==
    <<116, 104, 117, 109, 98, 95, 118>>

\* "_"
S_underscore ==
    <<95>>

\* "title_"
S_title_ ==
    <<116, 105, 116, 108, 101, 95>>

\* "webm_volume"
S_webm_volume ==
    <<119, 101, 98, 109, 95, 118, 111, 108, 117, 109, 101>>

\* "HTTP "
S_HTTP_ ==
    <<72, 84, 84, 80, 32>>

\* " | "
S_bar ==
    <<32, 124, 32>>

\* "cannot load"
S_cannot_load ==
    <<99, 97, 110, 110, 111, 116, 32, 108, 111, 97, 100>>

\* "cannot decode"
S_cannot_decode ==
    <<99, 97, 110, 110, 111, 116, 32, 100, 101, 99, 111, 100, 101>>

\* "URI malformed": the message of the URIError decodeURIComponent throws
S_URI_malformed ==
    <<85, 82, 73, 32, 109, 97, 108, 102, 111, 114, 109, 101, 100>>

\* "QuotaExceededError": stands for the message of the DOMException that
\* setItem throws when the quota is exceeded
S_quota ==
    <<81, 117, 111, 116, 97, 69, 120, 99, 101, 101, 100, 101, 100, 69,
      114, 114, 111, 114>>

\* "SecurityError": stands for the message of the DOMException that a
\* denied localStorage throws
S_denied ==
    <<83, 101, 99, 117, 114, 105, 116, 121, 69, 114, 114, 111, 114>>

\* "data:image/jpeg;"
\* The message of the TypeError of link.parentNode.replaceChild when
\* link.parentNode is null: "parentNode is null"
S_no_parent ==
    <<112, 97, 114, 101, 110, 116, 78, 111, 100, 101, 32, 105, 115, 32,
      110, 117, 108, 108>>

S_jpeg ==
    <<100, 97, 116, 97, 58, 105, 109, 97, 103, 101, 47, 106, 112, 101,
      103, 59>>

\* "http://0x0.st/a.webm": a candidate link's href: it matches ALLOWED_LINKS
UrlA ==
    <<104, 116, 116, 112, 58, 47, 47, 48, 120, 48, 46, 115, 116, 47,
      97, 46, 119, 101, 98, 109>>

\* "http://0x0.st/b.mp4": a candidate link's href: it matches ALLOWED_LINKS
UrlB ==
    <<104, 116, 116, 112, 58, 47, 47, 48, 120, 48, 46, 115, 116, 47,
      98, 46, 109, 112, 52>>

URLs == {UrlA, UrlB}

-----------------------------------------------------------------------------
(* 32-bit integer arithmetic of JavaScript's bitwise operators.  Every     *)
(* value is a signed 32-bit integer, and every intermediate result is kept  *)
(* inside that range.                                                       *)

RECURSIVE XorNat(_, _)
\* The bitwise exclusive or of two natural numbers.
XorNat(a, b) ==
    IF a = 0 THEN b
    ELSE IF b = 0 THEN a
    ELSE ((a + b) % 2) + 2 * XorNat(a \div 2, b \div 2)

\* a ^ b for a signed 32-bit a and 0 <= b <= 255 (every use in readInt):
\* only the low byte of a changes.
BitXor(a, b) == (a - (a % 256)) + XorNat(a % 256, b)

\* n << 8 on a signed 32-bit n: the low 24 bits move up, bit 23 becomes the
\* sign.
Shl8(n) ==
    LET low == n % 16777216
    IN  IF low >= 8388608 THEN (low - 16777216) * 256 ELSE low * 256

RECURSIVE TwoTo(_)
TwoTo(k) == IF k = 0 THEN 1 ELSE 2 * TwoTo(k - 1)

\* 0x80 >> len
Shr80(len) == 128 \div TwoTo(len)

-----------------------------------------------------------------------------
(* parseTitle: the scan of a WebM (EBML) byte buffer for the Title element. *)
(* data is a Uint8Array: a sequence of bytes; the code's index i counts     *)
(* from 0, so data[i] is data[i + 1] here, and undefined outside.           *)

\* 0x3BA9
ElementTitle == 15273

\* 0x8538067
ElementSegment == 139690087

\* 0x549A966
ElementInfo == 88713574

\* A read outside the buffer yields undefined; no byte is negative.
NoByte == 0 - 1

\* data[i]
ByteAt(data, i) == IF i >= 0 /\ i < Len(data) THEN data[i + 1] ELSE NoByte

RECURSIVE readIntLen(_, _)
\* while (n < (0x80 >> len)) len++;  a comparison with undefined is false.
readIntLen(n, len) ==
    IF n # NoByte /\ n < Shr80(len) THEN readIntLen(n, len + 1) ELSE len

RECURSIVE readIntBytes(_, _, _, _)
\* while (len-- && i < data.length) n = (n << 8) ^ data[i++];
readIntBytes(data, n, len, i) ==
    IF len # 0 /\ i < Len(data)
    THEN readIntBytes(data, BitXor(Shl8(n), data[i + 1]), len - 1, i + 1)
    ELSE [n |-> n, i |-> i]

\* readInt() called with the scan index at i: the integer read and the index
\* after it.  undefined ^ x is x.
readInt(data, i) ==
    LET n0 == ByteAt(data, i)
        len == readIntLen(n0, 0)
        n1 == BitXor(IF n0 = NoByte THEN 0 ELSE n0, Shr80(len))
    IN  readIntBytes(data, n1, len, i + 1)

\* The number of bytes the title loop reads from index i for a declared size:
\* while (size-- && i < data.length); a negative size never counts down to 0.
TitleBytes(data, i, size) ==
    LET rest == Max(Len(data) - i, 0)
    IN  IF size = 0 THEN 0 ELSE IF size < 0 THEN rest ELSE Min(size, rest)

-----------------------------------------------------------------------------
(* decodeURIComponent(escape(title)): title holds one character per byte;   *)
(* escape writes every byte above 0x7F as %XX and decodeURIComponent reads  *)
(* the %XX runs as UTF-8, throwing a URIError on a run that is not the      *)
(* UTF-8 encoding of a code point.  The result is in UTF-16 code units.     *)

\* The number of leading 1 bits of a byte (the length of the UTF-8 run).
LeadingOnes(b) ==
    IF b < 128 THEN 0
    ELSE IF b < 192 THEN 1
    ELSE IF b < 224 THEN 2
    ELSE IF b < 240 THEN 3
    ELSE IF b < 248 THEN 4
    ELSE 5

IsContinuation(b) == b >= 128 /\ b < 192

\* The code point of a UTF-8 run of n bytes starting at bytes[k].
RunValue(bytes, k, n) ==
    CASE n = 2 -> (bytes[k] - 192) * 64 + (bytes[k + 1] - 128)
      [] n = 3 -> (bytes[k] - 224) * 4096 + (bytes[k + 1] - 128) * 64
                    + (bytes[k + 2] - 128)
      [] n = 4 -> (bytes[k] - 240) * 262144 + (bytes[k + 1] - 128) * 4096
                    + (bytes[k + 2] - 128) * 64 + (bytes[k + 3] - 128)

\* The least code point a run of n bytes may encode (shorter forms are
\* overlong).
RunMin(n) == CASE n = 2 -> 128 [] n = 3 -> 2048 [] n = 4 -> 65536

\* Whether the n bytes at bytes[k] are the UTF-8 encoding of a code point.
ValidRun(bytes, k, n) ==
    /\ n >= 2 /\ n <= 4
    /\ k + n - 1 <= Len(bytes)
    /\ \A j \in 1..(n - 1) : IsContinuation(bytes[k + j])
    /\ LET v == RunValue(bytes, k, n)
       IN  /\ v >= RunMin(n)
           /\ v <= 1114111
           /\ ~(v >= 55296 /\ v <= 57343)

\* A code point as UTF-16 code units.
CodeUnits(v) ==
    IF v < 65536 THEN <<v>>
    ELSE <<55296 + ((v - 65536) \div 1024), 56320 + ((v - 65536) % 1024)>>

RECURSIVE Utf8Valid(_, _)
\* Whether bytes[k..] is well-formed UTF-8.
Utf8Valid(bytes, k) ==
    IF k > Len(bytes) THEN TRUE
    ELSE LET n == LeadingOnes(bytes[k])
         IN  IF n = 0 THEN Utf8Valid(bytes, k + 1)
             ELSE ValidRun(bytes, k, n) /\ Utf8Valid(bytes, k + n)

RECURSIVE Utf8Decode(_, _)
\* The string bytes[k..] decodes to, for well-formed bytes.
Utf8Decode(bytes, k) ==
    IF k > Len(bytes) THEN <<>>
    ELSE LET n == LeadingOnes(bytes[k])
         IN  IF n = 0 THEN <<bytes[k]>> \o Utf8Decode(bytes, k + 1)
             ELSE CodeUnits(RunValue(bytes, k, n)) \o Utf8Decode(bytes, k + n)

-----------------------------------------------------------------------------
(* parseTitle(data).  The result is [kind, title]: kind "return" with the   *)
(* title returned, "throw" when decodeURIComponent throws, "hang" when the  *)
(* while loop comes back to an index it has been at (the loop's state is    *)
(* its index alone, so it never ends).                                      *)

\* The scan going into every element: i is left where the payload begins.
Skip_descends(data, i, size) == i

\* i += size.  An index at or past data.length ends the loop whatever it is,
\* so it is kept at data.length.
Skip(data, i, size) ==
    IF size >= Len(data) - i THEN Max(Len(data), i) ELSE i + size

RECURSIVE parseTitleFrom(_, _, _)
\* The while loop of parseTitle from index i; seen holds the indices the loop
\* has started an iteration at.
parseTitleFrom(data, i, seen) ==
    IF ~(i < Len(data)) THEN [kind |-> "return", title |-> <<>>]
    ELSE IF i \in seen THEN [kind |-> "hang", title |-> <<>>]
    ELSE
      LET element == readInt(data, i)
          size == readInt(data, element.i)
      IN  IF element.n = ElementTitle
          THEN LET bytes == SubSeq(data, size.i + 1,
                                   size.i + TitleBytes(data, size.i, size.n))
               IN  IF Utf8Valid(bytes, 1)
                   THEN [kind |-> "return", title |-> Utf8Decode(bytes, 1)]
                   ELSE [kind |-> "throw", title |-> S_URI_malformed]
          ELSE IF element.n # ElementSegment /\ element.n # ElementInfo
          THEN parseTitleFrom(data, Skip(data, size.i, size.n), seen \cup {i})
          ELSE parseTitleFrom(data, size.i, seen \cup {i})

parseTitle(data) == parseTitleFrom(data, 0, {})

-----------------------------------------------------------------------------
(* The cache: localStorage, a function from the keys present to strings.    *)

\* localStorage.getItem(key)
getItem(ls, key) == IF key \in DOMAIN ls THEN ls[key] ELSE Null

\* localStorage after setItem(key, value)
setItem(ls, key, value) ==
    [k \in (DOMAIN ls) \cup {key} |-> IF k = key THEN value ELSE ls[k]]

\* The key without the version: "thumb_" + url.
ThumbKey_unversioned(version, url) == <<116, 104, 117, 109, 98, 95>> \o url

\* "thumb_v" + THUMB_VERSION + "_" + url
ThumbKey(version, url) ==
    S_thumb_v \o NumToString(version) \o S_underscore \o url

\* "title_" + url
TitleKey(url) == S_title_ \o url

getThumbFromCache(ls, version, url) == getItem(ls, ThumbKey(version, url))

\* saveThumbToCache storing under the key of the version before.
saveThumbToCache_staleVersion(ls, version, url, thumb) ==
    setItem(ls, ThumbKey(version - 1, url), thumb)

saveThumbToCache(ls, version, url, thumb) ==
    setItem(ls, ThumbKey(version, url), thumb)

getTitleFromCache(ls, url) == getItem(ls, TitleKey(url))

saveTitleToCache(ls, url, title) == setItem(ls, TitleKey(url), title)

\* +s for the strings saveVolumeToCache stores; +null is 0.
ToNumber(s) == IF s = Null THEN 0 ELSE s[1] - 48

\* +localStorage.getItem("webm_volume") || 0
getVolumeFromCache(ls) == ToNumber(getItem(ls, S_webm_volume))

saveVolumeToCache(ls, volume) == setItem(ls, S_webm_volume, NumToString(volume))

\* What localStorage does during one handler: "ok"; "full", where setItem
\* throws (the quota is exceeded); "denied", where every access throws.
StorageConditions == {"ok", "full", "denied"}

-----------------------------------------------------------------------------
(* The page: one post with two candidate links, in document order.  Both    *)
(* link the same video, so that their calls meet in the cache.              *)

Links == {1, 2}

\* The calls of embedVideo in one page load: call l is the first call on
\* link l, call l + 2 the call a second handling of the post makes on it.
Calls == {1, 2, 3, 4}

\* The link a call is about.
LinkOf(c) == IF c \in Links THEN c ELSE c - 2

\* link.href
Href(l) == UrlA

\* The volumes a player is set to: muted and full.
Volumes == {0, 1}

\* The <a> element of a link, as the page holds it before it is replaced.
\* A player has the poster, the title and the volume it was created with.
LinkNode == [tag |-> "a", poster |-> Null, title |-> Null, volume |-> 0]

\* The data URL makeThumbnail resolves with: hqDownsampleInPlace(src, dst)
\* .toDataURL("image/jpeg") of the first frame of the video.  The first frame
\* is the video's, named here by its URL; the rendering is the installed
\* script version's (the version is bumped when the rendering changes).
toDataURL(version, url) ==
    S_jpeg \o NumToString(version) \o S_underscore \o url

\* createVideoElement: the player built for a link with a poster.
createVideoElement(ls, l, thumbnail) ==
    LET title == getTitleFromCache(ls, Href(l))
    IN  [tag |-> "video",
         poster |-> thumbnail,
         title |-> IF Truthy(title) THEN title \o S_bar \o Href(l) ELSE Href(l),
         volume |-> getVolumeFromCache(ls)]

-----------------------------------------------------------------------------
(* The responses a server gives.                                            *)

Statuses == {206, 404}

\* Segment, Info, Title "Hi".
ChunkTitled ==
    <<24, 83, 128, 103, 1, 0, 0, 0, 0, 0, 0, 32, 21, 73, 169, 102, 136,
      123, 169, 130, 72, 105>>

\* The same file cut before the Title element.
ChunkCutEarly == SubSeq(ChunkTitled, 1, 17)

\* A file whose title is cut inside a two-byte character.
ChunkCutInChar ==
    <<24, 83, 128, 103, 1, 0, 0, 0, 0, 0, 0, 32, 21, 73, 169, 102, 136,
      123, 169, 130, 195>>

Chunks == {ChunkTitled, ChunkCutEarly, ChunkCutInChar}

\* parseTitle of each response body.
Parsed == [data \in Chunks |-> parseTitle(data)]

-----------------------------------------------------------------------------
(* embedVideo(post, link): one record per link and page load.               *)
(*   pc          "idle": not called; "threw": the call threw to its caller; *)
(*               "fetching": a GM_xmlhttpRequest is in flight;              *)
(*               "pending": the request is over without a callback of the   *)
(*               script's having run, its promise is never settled;         *)
(*               "decoding": a <video> is loading the fetched bytes;        *)
(*               "done": part2 resolved; "failed": partErr was called       *)
(*   cachedThumb the value read at the start of the call                    *)
(*   limit       the byte limit of the running part1 (0 before any)         *)
(*   fetches     the limits of the requests issued, in order                *)
(*   decodes     the number of loadVideo calls (object URLs created)        *)
(*   scanned     the title parseTitle returned to the last loadVideoTitle   *)
(*               of the call that resolved (Null before any)                *)
(*   reported    the e.message partErr logged (Null: partErr not called)    *)
(*   thumbWrites the number of thumbnail entries the call stored            *)

Idle ==
    [pc |-> "idle", cachedThumb |-> Null, limit |-> 0, fetches |-> <<>>,
     decodes |-> 0, scanned |-> Null, reported |-> Null, thumbWrites |-> 0]

\* The object URLs a call holds: loadVideo creates one for every decode
\* (URL.createObjectURL), and nothing in the script revokes one.
objectURLs(a) == a.decodes

\* partErr(e): console.error, and nothing else.
partErr(a, message) == [a EXCEPT !.pc = "failed", !.reported = message]

\* The start of part1(limit): loadVideoDataFromURL issues the request.
part1(a, limit) ==
    [a EXCEPT !.pc = "fetching", !.limit = limit, !.fetches = Append(@, limit)]

\* e.message || ""
MessageOf(message) == IF message = Undefined THEN <<>> ELSE message

\* onRejected with the second chain handled like the first: a failure of
\* the LOAD_BYTES2 attempt starts yet another.
onRejected_retriesAgain(a, message) ==
    IF StartsWith(MessageOf(message), S_HTTP_)
    THEN partErr(a, message)
    ELSE part1(a, LOAD_BYTES2)

\* onRejected without the test of the message: every failure of the
\* LOAD_BYTES1 attempt starts the LOAD_BYTES2 attempt.
onRejected_alwaysWidens(a, message) ==
    IF a.limit = LOAD_BYTES1
    THEN part1(a, LOAD_BYTES2)
    ELSE partErr(a, message)

\* onRejected taking an error without a message for a transport error.
onRejected_reportsNoMessage(a, message) ==
    IF a.limit = LOAD_BYTES1
    THEN IF message = Undefined \/ StartsWith(MessageOf(message), S_HTTP_)
         THEN partErr(a, message)
         ELSE part1(a, LOAD_BYTES2)
    ELSE partErr(a, message)

\* onRejected reporting a frame that cannot be drawn without another request.
onRejected_reportsCannotDecode(a, message) ==
    IF a.limit = LOAD_BYTES1
    THEN IF message = S_cannot_decode \/ StartsWith(MessageOf(message), S_HTTP_)
         THEN partErr(a, message)
         ELSE part1(a, LOAD_BYTES2)
    ELSE partErr(a, message)

\* A rejection of the part1 chain with an error of the given message.  The
\* chain of LOAD_BYTES1 has the handler of lines 325-331, the chain of
\* LOAD_BYTES2 has .catch(partErr).
onRejected(a, message) ==
    IF a.limit = LOAD_BYTES1
    THEN IF StartsWith(MessageOf(message), S_HTTP_)
         THEN partErr(a, message)
         ELSE part1(a, LOAD_BYTES2)
    ELSE partErr(a, message)

\* part2 saving the thumbnail whether or not one was cached at the start.
part2_alwaysSaves(a, l, thumb, ls, version, st) ==
    IF st = "denied"
    THEN [a |-> partErr(a, S_denied), node |-> LinkNode, ls |-> ls]
    ELSE LET div == createVideoElement(ls, l, thumb)
         IN  IF st = "full"
             THEN [a |-> partErr(a, S_quota), node |-> div, ls |-> ls]
             ELSE [a |-> [a EXCEPT !.pc = "done", !.thumbWrites = @ + 1],
                   node |-> div,
                   ls |-> saveThumbToCache(ls, version, Href(l), thumb)]

\* part2 reading the cache again before it saves: no write when the entry is
\* present by then.
part2_checksAtWrite(a, l, thumb, ls, version, st) ==
    IF st = "denied"
    THEN [a |-> partErr(a, S_denied), node |-> LinkNode, ls |-> ls]
    ELSE LET div == createVideoElement(ls, l, thumb)
         IN  IF Truthy(getThumbFromCache(ls, version, Href(l)))
             THEN [a |-> [a EXCEPT !.pc = "done"], node |-> div, ls |-> ls]
             ELSE IF st = "full"
             THEN [a |-> partErr(a, S_quota), node |-> div, ls |-> ls]
             ELSE [a |-> [a EXCEPT !.pc = "done", !.thumbWrites = @ + 1],
                   node |-> div,
                   ls |-> saveThumbToCache(ls, version, Href(l), thumb)]

\* part2(thumb) under a storage condition: [a, node, ls], the attempt, the
\* link's place in the page and localStorage after it.  createVideoElement
\* reads the cache first; the link is replaced; then the thumbnail is saved
\* unless one was cached at the start.  A throw inside rejects part2's
\* promise, which goes to partErr.
part2(a, l, thumb, ls, version, st) ==
    IF st = "denied"
    THEN [a |-> partErr(a, S_denied), node |-> LinkNode, ls |-> ls]
    ELSE LET div == createVideoElement(ls, l, thumb)
         IN  IF Truthy(a.cachedThumb)
             THEN [a |-> [a EXCEPT !.pc = "done"], node |-> div, ls |-> ls]
             ELSE IF st = "full"
             THEN [a |-> partErr(a, S_quota), node |-> div, ls |-> ls]
             ELSE [a |-> [a EXCEPT !.pc = "done", !.thumbWrites = @ + 1],
                   node |-> div,
                   ls |-> saveThumbToCache(ls, version, Href(l), thumb)]

\* part2(thumb) of a call whose link is no longer in the page (another call
\* replaced it): createVideoElement reads the cache, then
\* link.parentNode.replaceChild throws, parentNode being null.
part2Detached(a, st) ==
    IF st = "denied" THEN partErr(a, S_denied) ELSE partErr(a, S_no_parent)

\* embedVideo with part1 started whatever the cache holds.
embedVideo_ignoresCache(l, ls, version, st) ==
    IF st = "denied"
    THEN [a |-> [Idle EXCEPT !.pc = "threw"], node |-> LinkNode, ls |-> ls]
    ELSE LET cachedThumb == getThumbFromCache(ls, version, Href(l))
             a == [Idle EXCEPT !.cachedThumb = cachedThumb]
         IN  [a |-> part1(a, LOAD_BYTES1), node |-> LinkNode, ls |-> ls]

\* The synchronous part of embedVideo(post, link): the cache read, then
\* part2 on a hit or the first request on a miss.
embedVideo(l, ls, version, st) ==
    IF st = "denied"
    THEN [a |-> [Idle EXCEPT !.pc = "threw"], node |-> LinkNode, ls |-> ls]
    ELSE LET cachedThumb == getThumbFromCache(ls, version, Href(l))
             a == [Idle EXCEPT !.cachedThumb = cachedThumb]
         IN  IF Truthy(cachedThumb)
             THEN part2(a, l, cachedThumb, ls, version, st)
             ELSE [a |-> part1(a, LOAD_BYTES1), node |-> LinkNode, ls |-> ls]

\* loadVideoTitle without the call of saveTitleToCache.
loadVideoTitle_neverSaves(ls, url, videoData, st) ==
    LET r == Parsed[videoData]
    IN  IF r.kind = "throw"
        THEN [ok |-> FALSE, message |-> r.title, title |-> Null, ls |-> ls]
        ELSE [ok |-> TRUE, message |-> Null, title |-> r.title, ls |-> ls]

\* loadVideoTitle(url, videoData) under a storage condition: whether it
\* resolves, the message it rejects with otherwise, the title parseTitle
\* returned, and localStorage after.
loadVideoTitle(ls, url, videoData, st) ==
    LET r == Parsed[videoData]
    IN  IF r.kind = "throw"
        THEN [ok |-> FALSE, message |-> r.title, title |-> Null, ls |-> ls]
        ELSE IF ~Truthy(r.title)
        THEN [ok |-> TRUE, message |-> Null, title |-> r.title, ls |-> ls]
        ELSE IF st = "ok"
        THEN [ok |-> TRUE, message |-> Null, title |-> r.title,
              ls |-> saveTitleToCache(ls, url, r.title)]
        ELSE [ok |-> FALSE,
              message |-> IF st = "full" THEN S_quota ELSE S_denied,
              title |-> r.title, ls |-> ls]

-----------------------------------------------------------------------------
(* The state machine.  Every action is one handler the browser runs to      *)
(* completion, with the promise reactions it queues (they run before any    *)
(* other handler).                                                          *)

\* What the last handler was: its name, the link and the byte limit it was
\* about (0 when none), and what it met.
Event(op, l, limit, met) == [op |-> op, link |-> l, limit |-> limit, met |-> met]

\* No function is applied on its own.
NoCall == [f |-> "none"]

\* The script has started on a page: nothing is cached, nothing has run.
InitScript ==
    /\ THUMB_VERSION = 2
    /\ localStorage = [k \in {} |-> Null]
    /\ dom = [l \in Links |-> LinkNode]
    /\ attempt = [c \in Calls |-> Idle]
    /\ handled = FALSE
    /\ last = Event("load", 0, 0, "ok")

Init ==
    /\ InitScript
    /\ call = NoCall

\* A new document: the links are in the page, nothing has run.
LoadPage(op) ==
    /\ dom' = [l \in Links |-> LinkNode]
    /\ attempt' = [c \in Calls |-> Idle]
    /\ handled' = FALSE
    /\ last' = Event(op, 0, 0, "ok")

RECURSIVE forEachLink(_, _, _, _)
\* links.filter(...).forEach(embedVideo.bind(null, post)) from link l on, in
\* document order: s is [dom, attempt, ls, threw].  A call that throws ends
\* the forEach: the links after it are not visited.  Only the links that are
\* still <a target=_blank> elements are found; the call is recorded as the
\* link's first, or as its second when it has had one.
forEachLink(l, s, version, st) ==
    IF l \notin Links THEN s
    ELSE IF s.dom[l].tag # "a" THEN forEachLink(l + 1, s, version, st)
    ELSE LET r == embedVideo(l, s.ls, version, st)
             c == IF s.attempt[l] = Idle THEN l ELSE l + 2
             s1 == [dom |-> [s.dom EXCEPT ![l] = r.node],
                    attempt |-> [s.attempt EXCEPT ![c] = r.a],
                    ls |-> r.ls,
                    threw |-> IF r.a.pc = "threw" THEN l ELSE 0]
         IN  IF r.a.pc = "threw" THEN s1
             ELSE forEachLink(l + 1, s1, version, st)

\* handlePost(post), called by the scan of the page.
HandlePost(st) ==
    /\ ~handled
    /\ LET s == forEachLink(1, [dom |-> dom, attempt |-> attempt,
                                ls |-> localStorage, threw |-> 0],
                            THUMB_VERSION, st)
       IN  /\ dom' = s.dom
           /\ attempt' = s.attempt
           /\ localStorage' = s.ls
           /\ last' = Event("handlePost", s.threw, 0, st)
    /\ handled' = TRUE
    /\ UNCHANGED <<THUMB_VERSION, call>>

\* onload of the request of call l: the response has the given status and
\* body.  A success resolves into loadVideoTitle and loadVideo.
FetchLoad(l, status, chunk, st) ==
    LET a == attempt[l]
        t == loadVideoTitle(localStorage, Href(l), chunk, st)
    IN  /\ a.pc = "fetching"
        /\ IF status >= 200 /\ status < 400
           THEN IF t.ok
                THEN /\ attempt' = [attempt EXCEPT
                                      ![l] = [a EXCEPT !.pc = "decoding",
                                                       !.decodes = @ + 1,
                                                       !.scanned = t.title]]
                     /\ localStorage' = t.ls
                     /\ last' = Event("onload", l, a.limit, "resolved")
                ELSE /\ attempt' = [attempt EXCEPT
                                      ![l] = onRejected(a, t.message)]
                     /\ localStorage' = localStorage
                     /\ last' = Event("onload", l, a.limit,
                                      IF t.message = S_URI_malformed
                                      THEN "title-scan-throws"
                                      ELSE "title-save-throws")
           ELSE /\ attempt' = [attempt EXCEPT
                                 ![l] = onRejected(a, S_HTTP_ \o NumToString(status))]
                /\ localStorage' = localStorage
                /\ last' = Event("onload", l, a.limit, "http-status")
        /\ UNCHANGED <<THUMB_VERSION, dom, handled, call>>

\* onerror of the request of call l: reject(e) with GM_xmlhttpRequest's
\* response object, which has no message.
FetchError(l) ==
    LET a == attempt[l]
    IN  /\ a.pc = "fetching"
        /\ attempt' = [attempt EXCEPT ![l] = onRejected(a, Undefined)]
        /\ last' = Event("onerror", l, a.limit, "network")
        /\ UNCHANGED <<THUMB_VERSION, localStorage, dom, handled, call>>

\* loadeddata of the <video> of call l: makeScreenshot (drawImage throws or
\* not), makeThumbnail, part2.
VideoLoaded(l, drawn, st) ==
    LET a == attempt[l]
        link == LinkOf(l)
        r == IF dom[link].tag = "a"
             THEN part2(a, link, toDataURL(THUMB_VERSION, Href(link)),
                        localStorage, THUMB_VERSION, st)
             ELSE [a |-> part2Detached(a, st), node |-> dom[link],
                   ls |-> localStorage]
    IN  /\ a.pc = "decoding"
        /\ IF drawn
           THEN /\ attempt' = [attempt EXCEPT ![l] = r.a]
                /\ dom' = [dom EXCEPT ![link] = r.node]
                /\ localStorage' = r.ls
                /\ last' = Event("loadeddata", l, a.limit, st)
           ELSE /\ attempt' = [attempt EXCEPT
                                 ![l] = onRejected(a, S_cannot_decode)]
                /\ dom' = dom
                /\ localStorage' = localStorage
                /\ last' = Event("loadeddata", l, a.limit, "draw-throws")
        /\ UNCHANGED <<THUMB_VERSION, handled, call>>

\* error of the <video> of call l.
VideoError(l) ==
    LET a == attempt[l]
    IN  /\ a.pc = "decoding"
        /\ attempt' = [attempt EXCEPT ![l] = onRejected(a, S_cannot_load)]
        /\ last' = Event("error", l, a.limit, "decoder")
        /\ UNCHANGED <<THUMB_VERSION, localStorage, dom, handled, call>>

\* volumechange of the player of link l, whose volume is now the given one:
\* saveVolumeToCache(vid.volume).
VolumeChange(l, volume, st) ==
    /\ dom[l].tag = "video"
    /\ localStorage' = IF st = "ok" THEN saveVolumeToCache(localStorage, volume)
                       ELSE localStorage
    /\ last' = Event("volumechange", l, 0, st)
    /\ UNCHANGED <<THUMB_VERSION, dom, attempt, handled, call>>

\* The page is loaded again: a new document, the same localStorage.
Reload ==
    /\ handled
    /\ LoadPage("load")
    /\ UNCHANGED <<THUMB_VERSION, localStorage, call>>

\* A script release with THUMB_VERSION raised by one is installed, and the
\* page is loaded again.
ScriptUpdate ==
    /\ THUMB_VERSION < MaxVersion
    /\ THUMB_VERSION' = THUMB_VERSION + 1
    /\ LoadPage("update")
    /\ UNCHANGED <<localStorage, call>>

Next ==
    \/ \E st \in StorageConditions : HandlePost(st)
    \/ \E l \in Calls, status \in Statuses, chunk \in Chunks,
          st \in StorageConditions : FetchLoad(l, status, chunk, st)
    \/ \E l \in Calls : FetchError(l)
    \/ \E l \in Calls, drawn \in BOOLEAN, st \in StorageConditions :
          VideoLoaded(l, drawn, st)
    \/ \E l \in Calls : VideoError(l)
    \/ \E l \in Links, volume \in Volumes, st \in StorageConditions :
          VolumeChange(l, volume, st)
    \/ Reload
    \/ ScriptUpdate

Spec == Init /\ [][Next]_vars

\* refreshContentDone fires again on a page whose post was handled:
\* handleThreads runs handlePosts on the container, and handlePost runs on
\* the post once more.  (handleThreads also registers one more
\* MutationObserver each time; none is ever disconnected.)
Refresh(st) ==
    /\ handled
    /\ \A l \in Links : attempt[l + 2] = Idle
    /\ LET s == forEachLink(1, [dom |-> dom, attempt |-> attempt,
                                ls |-> localStorage, threw |-> 0],
                            THUMB_VERSION, st)
       IN  /\ dom' = s.dom
           /\ attempt' = s.attempt
           /\ localStorage' = s.ls
           /\ last' = Event("refreshContentDone", s.threw, 0, st)
    /\ UNCHANGED <<THUMB_VERSION, handled, call>>

\* The steps of a page whose content is refreshed, with a storage that
\* works and a file without a title.
NextRefresh ==
    \/ HandlePost("ok")
    \/ Refresh("ok")
    \/ \E l \in Calls, status \in Statuses :
          FetchLoad(l, status, ChunkCutEarly, "ok")
    \/ \E l \in Calls : FetchError(l)
    \/ \E l \in Calls, drawn \in BOOLEAN : VideoLoaded(l, drawn, "ok")
    \/ \E l \in Calls : VideoError(l)
    \/ Reload

\* The program on a page whose content is refreshed.
SpecRefresh == Init /\ [][NextRefresh]_vars

-----------------------------------------------------------------------------
(* parseTitle on its own, applied to every prefix of a set of WebM files.   *)
(* A file is EBML: elements of an id, a size and a payload; ids and sizes   *)
(* are variable-length integers whose first byte tells their length by its  *)
(* leading zero bits (what readInt decodes).                                *)

\* The size n written on 1, 2 or 8 bytes.
EncodeSize(n, width) ==
    CASE width = 1 -> <<128 + n>>
      [] width = 2 -> <<64 + (n \div 256), n % 256>>
      [] width = 8 -> <<1, 0, 0, 0, 0, 0, 0, n>>

\* The unknown size on 8 bytes (a Segment written by a live muxer).
SizeUnknown == <<1, 255, 255, 255, 255, 255, 255, 255>>

\* An element: its id, the size of its payload on width bytes, its payload.
Element(id, width, payload) == id \o EncodeSize(Len(payload), width) \o payload

IdEBML == <<26, 69, 223, 163>>

IdSegment == <<24, 83, 128, 103>>

IdInfo == <<21, 73, 169, 102>>

IdTitle == <<123, 169>>

IdVoid == <<236>>

IdTimecodeScale == <<42, 215, 177>>

IdWritingApp == <<87, 65>>

\* Titles: the UTF-8 bytes in the file and the text they encode (UTF-16 code
\* units): "", "Hi", e acute, the euro sign, "a" euro "b", U+1F600.
Titles ==
    << [bytes |-> <<>>, text |-> <<>>],
       [bytes |-> <<72, 105>>, text |-> <<72, 105>>],
       [bytes |-> <<195, 169>>, text |-> <<233>>],
       [bytes |-> <<226, 130, 172>>, text |-> <<8364>>],
       [bytes |-> <<97, 226, 130, 172, 98>>, text |-> <<97, 8364, 98>>],
       [bytes |-> <<240, 159, 152, 128>>, text |-> <<55357, 56832>>] >>

\* The widths sizes are written on.
Widths == {1, 2, 8}

\* The layouts of a file.  1: header, Segment of unknown size, Info, Title.
\* 2: header, Segment, a Void whose payload holds the bytes of a Title
\* element, Info, TimecodeScale, Title.
Layouts == {1, 2}

\* The Title element of title t.
TitleElement(t, w) == Element(IdTitle, w, Titles[t].bytes)

\* The element after the Title: WritingApp "x".
AfterTitle(w) == Element(IdWritingApp, w, <<120>>)

\* The bytes of a file before its Title element.
BeforeTitle(t, w, layout) ==
    LET header == Element(IdEBML, w, <<66, 134, 129, 1>>)
        scale == Element(IdTimecodeScale, w, <<15, 66, 64>>)
        void == Element(IdVoid, w, <<123, 169, 129, 90>>)
        rest == TitleElement(t, w) \o AfterTitle(w)
    IN  IF layout = 1
        THEN header \o IdSegment \o SizeUnknown
                 \o IdInfo \o EncodeSize(Len(rest), w)
        ELSE LET info == IdInfo \o EncodeSize(Len(scale) + Len(rest), w)
             IN  header
                     \o IdSegment
                     \o EncodeSize(Len(void) + Len(info) + Len(scale)
                                       + Len(rest), 8)
                     \o void \o info \o scale

\* A whole file.
File(t, w, layout) ==
    BeforeTitle(t, w, layout) \o TitleElement(t, w) \o AfterTitle(w)

\* The index at which the Title element of a file begins, and the one at
\* which its payload ends.
TitleStart(t, w, layout) == Len(BeforeTitle(t, w, layout))

TitleEnd(t, w, layout) ==
    Len(BeforeTitle(t, w, layout)) + Len(TitleElement(t, w))

\* parseTitle is called on the first cut bytes of a file.
InitParse ==
    /\ InitScript
    /\ \E t \in DOMAIN Titles, w \in Widths, layout \in Layouts :
          \E cut \in 0..Len(File(t, w, layout)) :
              call = [f |-> "parseTitle", t |-> t, w |-> w, layout |-> layout,
                      cut |-> cut,
                      data |-> SubSeq(File(t, w, layout), 1, cut),
                      pc |-> "called",
                      out |-> [kind |-> "none", title |-> <<>>]]

\* parseTitle(data) runs to its end.
ParseTitle ==
    /\ call.f = "parseTitle"
    /\ call.pc = "called"
    /\ call' = [call EXCEPT !.pc = "returned", !.out = parseTitle(call.data)]
    /\ UNCHANGED <<THUMB_VERSION, localStorage, dom, attempt, handled, last>>

NextParse == ParseTitle

SpecParse == InitParse /\ [][NextParse]_vars

-----------------------------------------------------------------------------
(* makeThumbnail and hqDownsampleInPlace on their own.  A JavaScript number *)
(* that is halved again and again is n / 2^k, kept as [n, k] with n odd or  *)
(* k = 0 (such a quotient is exact in a double).  A canvas dimension is an  *)
(* unsigned long: the number assigned to it loses its fraction.             *)

\* var THUMB_SIZE = 200
THUMB_SIZE == 200

\* The number d.
Whole(d) == [n |-> d, k |-> 0]

\* x / 2
Half(x) == IF x.n % 2 = 0 /\ x.n > 0 /\ x.k = 0
           THEN [n |-> x.n \div 2, k |-> 0]
           ELSE [n |-> x.n, k |-> x.k + 1]

\* A comparison that never holds: no dimension is raised to the target.
Less_never(x, d) == FALSE

\* x < d and x > d for an integer d
Less(x, d) == x.n < d * TwoTo(x.k)

Greater(x, d) == x.n > d * TwoTo(x.k)

\* The unsigned long a number becomes when assigned to canvas.width.
ToLength(x) == x.n \div TwoTo(x.k)

\* a / b with its fraction dropped.
MathRound_truncates(a, b) == a \div b

\* Math.round(a / b) for positive integers a and b: halves go up.
MathRound(a, b) == (2 * a + b) \div (2 * b)

\* The edges of the frames makeScreenshot hands to makeThumbnail.
Edges == {1, 2, 3, 150, 199, 200, 201, 401, 640, 1000, 1080, 1920}

\* The edges hqDownsampleInPlace is given on its own: any source and any
\* target canvas.
SourceEdges == {1, 5, 16, 33}

TargetEdges == {1, 4, 7}

\* The canvas makeThumbnail creates for a frame of w by h.
ThumbCanvas(w, h) ==
    IF w > h
    THEN [width |-> THUMB_SIZE, height |-> MathRound(THUMB_SIZE * h, w)]
    ELSE [width |-> MathRound(THUMB_SIZE * w, h), height |-> THUMB_SIZE]

\* hqDownsampleInPlace(src, dst) before its loop: w and h are the dimensions
\* of the frame, src those of the canvas src names, dW and dH the target,
\* cW and cH the current dimensions, passes the drawImage calls made.
Downsample(f, w, h, dst) ==
    [f |-> f, w |-> w, h |-> h, pc |-> "loop",
     src |-> [width |-> w, height |-> h],
     dW |-> dst.width, dH |-> dst.height,
     cW |-> Whole(w), cH |-> Whole(h), passes |-> 0]

\* makeThumbnail(src) is called on a frame, or hqDownsampleInPlace on a
\* source and a target canvas.
InitThumb ==
    /\ InitScript
    /\ \/ \E w \in Edges, h \in Edges :
             call = [f |-> "makeThumbnail", w |-> w, h |-> h, pc |-> "called",
                     src |-> [width |-> w, height |-> h],
                     dW |-> 0, dH |-> 0,
                     cW |-> Whole(w), cH |-> Whole(h), passes |-> 0]
       \/ \E w \in SourceEdges, h \in SourceEdges,
             dW \in TargetEdges, dH \in TargetEdges :
             call = Downsample("hqDownsampleInPlace", w, h,
                               [width |-> dW, height |-> dH])

\* makeThumbnail up to its call of hqDownsampleInPlace(src, dst).
MakeThumbnail ==
    /\ call.f = "makeThumbnail"
    /\ call.pc = "called"
    /\ call' = Downsample("makeThumbnail", call.w, call.h,
                          ThumbCanvas(call.w, call.h))
    /\ UNCHANGED <<THUMB_VERSION, localStorage, dom, attempt, handled, last>>

\* One pass of the do-while loop, with its test.  drawImage throws when the
\* canvas it draws from has a zero dimension.
Pass ==
    /\ call.f \in {"makeThumbnail", "hqDownsampleInPlace"}
    /\ call.pc = "loop"
    /\ LET halfW == Half(call.cW)
           halfH == Half(call.cH)
           cW == IF Less(halfW, call.dW) THEN Whole(call.dW) ELSE halfW
           cH == IF Less(halfH, call.dH) THEN Whole(call.dH) ELSE halfH
       IN  call' =
             IF call.src.width = 0 \/ call.src.height = 0
             THEN [call EXCEPT !.pc = "threw", !.cW = cW, !.cH = cH]
             ELSE [call EXCEPT
                     !.cW = cW, !.cH = cH,
                     !.src = [width |-> ToLength(cW), height |-> ToLength(cH)],
                     !.passes = @ + 1,
                     !.pc = IF Greater(cW, call.dW) \/ Greater(cH, call.dH)
                            THEN "loop" ELSE "returned"]
    /\ UNCHANGED <<THUMB_VERSION, localStorage, dom, attempt, handled, last>>

NextThumb ==
    \/ MakeThumbnail
    \/ Pass

\* The loop goes on while it can.
SpecThumb == InitThumb /\ [][NextThumb]_vars /\ WF_vars(NextThumb)

-----------------------------------------------------------------------------
(* loadVideoDataFromURL on its own, against a server that honours the Range *)
(* header: a byte range first-last names the bytes from offset first to     *)
(* offset last, both included.                                              *)

\* "bytes=0-"
S_bytes0 == <<98, 121, 116, 101, 115, 61, 48, 45>>

\* The value of the Range header: "bytes=0-" + limit
RangeHeader(limit) == S_bytes0 \o NumToString(limit)

RECURSIVE DigitsToNumber(_, _)
\* The number a string of decimal digits writes, after the digits read so far.
DigitsToNumber(s, n) ==
    IF s = <<>> THEN n ELSE DigitsToNumber(Tail(s), 10 * n + (s[1] - 48))

\* The position of the "-" of a range "bytes=first-last".
DashAt(s) == CHOOSE k \in 7..Len(s) : s[k] = 45

\* The server's reading of a Range header: the offsets of the first and the
\* last byte asked for.
ParseRange(s) ==
    [first |-> DigitsToNumber(SubSeq(s, 7, DashAt(s) - 1), 0),
     last |-> DigitsToNumber(SubSeq(s, DashAt(s) + 1, Len(s)), 0)]

\* The response of a server that honours the range, for a file of the given
\* length: 206 with the bytes of the range that the file has, or 416 when
\* the file has none of them.
ServeRange(s, fileLength) ==
    LET range == ParseRange(s)
    IN  IF range.first >= fileLength
        THEN [status |-> 416, length |-> 0]
        ELSE [status |-> 206,
              length |-> Min(range.last, fileLength - 1) - range.first + 1]

\* The lengths of the files requested, about the two limits.
FileLengths ==
    {0, 1, 1000, 1000000}
        \cup {LOAD_BYTES1 + x : x \in (0 - 3)..3}
        \cup {LOAD_BYTES2 + x : x \in (0 - 3)..3}

\* loadVideoDataFromURL(url, limit) is called for a file of some length.
InitRange ==
    /\ InitScript
    /\ \E limit \in {LOAD_BYTES1, LOAD_BYTES2}, fileLength \in FileLengths :
          call = [f |-> "loadVideoDataFromURL", limit |-> limit,
                  fileLength |-> fileLength, pc |-> "called",
                  Range |-> <<>>, status |-> 0, length |-> 0]

\* GM_xmlhttpRequest is called: the request goes out with its Range header.
SendRequest ==
    /\ call.f = "loadVideoDataFromURL"
    /\ call.pc = "called"
    /\ call' = [call EXCEPT !.pc = "sent", !.Range = RangeHeader(call.limit)]
    /\ UNCHANGED <<THUMB_VERSION, localStorage, dom, attempt, handled, last>>

\* onload: the server's response has come; res.response has length bytes.
ResponseLoaded ==
    /\ call.f = "loadVideoDataFromURL"
    /\ call.pc = "sent"
    /\ LET res == ServeRange(call.Range, call.fileLength)
       IN  call' = [call EXCEPT
                      !.pc = IF res.status >= 200 /\ res.status < 400
                             THEN "resolved" ELSE "rejected",
                      !.status = res.status,
                      !.length = res.length]
    /\ UNCHANGED <<THUMB_VERSION, localStorage, dom, attempt, handled, last>>

NextRange ==
    \/ SendRequest
    \/ ResponseLoaded

SpecRange == InitRange /\ [][NextRange]_vars

-----------------------------------------------------------------------------
(* Properties *)

\* The messages of the errors loadVideoDataFromURL rejects with on a response
\* whose status is no success.
HttpErrors ==
    {S_HTTP_ \o NumToString(s) : s \in {x \in Statuses : ~(x >= 200 /\ x < 400)}}

\* The call for link l found a thumbnail in the cache when it started.
CacheHit(l) == Truthy(attempt[l].cachedThumb)

\* The call for link l started and found no thumbnail in the cache.
CacheMiss(l) ==
    /\ attempt[l].pc \notin {"idle", "threw"}
    /\ ~Truthy(attempt[l].cachedThumb)

\* The thumbnail entry of link l's URL under the installed version.
CachedNow(l) == getThumbFromCache(localStorage, THUMB_VERSION, Href(l))

\* C1: a call that finds a thumbnail for its URL under the current
\* THUMB_VERSION issues no request and starts no decode: it is neither
\* fetching nor decoding in any state, and has issued no request and loaded
\* no video.  Right after handlePost (which writes nothing), every link whose
\* entry is in the cache is such a call, and it is done.
C1_CacheHitNoFetch ==
    \A l \in Links :
        /\ CacheHit(l) =>
              /\ attempt[l].fetches = <<>>
              /\ attempt[l].decodes = 0
              /\ attempt[l].pc \notin {"fetching", "decoding"}
        /\ (last.op = "handlePost" /\ last.met # "denied" /\ Truthy(CachedNow(l))) =>
              /\ CacheHit(l)
              /\ attempt[l].pc = "done"
              /\ attempt[l].fetches = <<>>

C1_Witness ==
    \E l \in Links :
        /\ CacheHit(l)
        /\ attempt[l].pc = "done"
        /\ dom[l].tag = "video"
        /\ attempt[l].fetches = <<>>

\* C2: a call issues at most two requests, the first with LOAD_BYTES1 and the
\* second with LOAD_BYTES2.  When the <video> of the LOAD_BYTES1 bytes fires
\* error, exactly one LOAD_BYTES2 request has been issued and is in flight;
\* when the LOAD_BYTES2 attempt fails (in the request, the title scan, the
\* decode or the drawing), the call has failed with its two requests and no
\* third.
C2_EscalateOnce ==
    \A l \in Links :
        LET a == attempt[l]
        IN  /\ a.fetches \in {<<>>, <<LOAD_BYTES1>>, <<LOAD_BYTES1, LOAD_BYTES2>>}
            /\ last = Event("error", l, LOAD_BYTES1, "decoder") =>
                  /\ a.pc = "fetching"
                  /\ a.limit = LOAD_BYTES2
                  /\ a.fetches = <<LOAD_BYTES1, LOAD_BYTES2>>
                  /\ a.reported = Null
            /\ (/\ last.link = l
                /\ last.limit = LOAD_BYTES2
                /\ last.met \in {"decoder", "draw-throws", "network",
                                 "http-status", "title-scan-throws",
                                 "title-save-throws"}) =>
                  /\ a.pc = "failed"
                  /\ a.fetches = <<LOAD_BYTES1, LOAD_BYTES2>>
                  /\ a.reported # Null

\* Both decodes failed: the call has failed after its two requests.
C2_Witness ==
    \E l \in Links :
        /\ attempt[l].pc = "failed"
        /\ attempt[l].decodes = 2
        /\ attempt[l].fetches = <<LOAD_BYTES1, LOAD_BYTES2>>
        /\ attempt[l].reported = S_cannot_load
        /\ last = Event("error", l, LOAD_BYTES2, "decoder")

\* C3: when the LOAD_BYTES1 request loads with a status that is no success,
\* the call has failed at once, reporting "HTTP " + status, with that one
\* request; a call that reported an HTTP error is failed (it issues nothing
\* more) and its link is still in the page as it was.
C3_HttpErrorNotRetried ==
    \A l \in Links :
        LET a == attempt[l]
        IN  /\ last = Event("onload", l, LOAD_BYTES1, "http-status") =>
                  /\ a.pc = "failed"
                  /\ a.reported \in HttpErrors
                  /\ a.fetches = <<LOAD_BYTES1>>
            /\ a.reported \in HttpErrors =>
                  /\ a.pc = "failed"
                  /\ dom[l] = LinkNode

C3_Witness ==
    \E l \in Links :
        /\ last = Event("onload", l, LOAD_BYTES1, "http-status")
        /\ attempt[l].reported = S_HTTP_ \o <<52, 48, 52>>
        /\ attempt[l].fetches = <<LOAD_BYTES1>>
        /\ dom[l] = LinkNode

\* C4 as claimed: when the LOAD_BYTES1 request fires onerror (no status, no
\* message), the call reports the failure and ends after that one request.
C4_Claimed ==
    \A l \in Links :
        last = Event("onerror", l, LOAD_BYTES1, "network") =>
            /\ attempt[l].pc = "failed"
            /\ attempt[l].fetches = <<LOAD_BYTES1>>

\* C4 as amended: when the LOAD_BYTES1 request fires onerror, nothing is
\* reported and exactly one LOAD_BYTES2 request has been issued and is in
\* flight (the error has no message that starts with "HTTP "); when the
\* LOAD_BYTES2 request fires onerror, the call has failed and reported an
\* error without a message, after its two requests.
C4_NetworkErrorEscalates ==
    \A l \in Links :
        LET a == attempt[l]
        IN  /\ last = Event("onerror", l, LOAD_BYTES1, "network") =>
                  /\ a.pc = "fetching"
                  /\ a.limit = LOAD_BYTES2
                  /\ a.fetches = <<LOAD_BYTES1, LOAD_BYTES2>>
                  /\ a.reported = Null
                  /\ dom[l] = LinkNode
            /\ last = Event("onerror", l, LOAD_BYTES2, "network") =>
                  /\ a.pc = "failed"
                  /\ a.fetches = <<LOAD_BYTES1, LOAD_BYTES2>>
                  /\ a.reported = Undefined
                  /\ dom[l] = LinkNode

C4_Witness ==
    \E l \in Links :
        /\ last = Event("onerror", l, LOAD_BYTES1, "network")
        /\ attempt[l].pc = "fetching"
        /\ attempt[l].decodes = 0
        /\ attempt[l].fetches = <<LOAD_BYTES1, LOAD_BYTES2>>

\* C5 as claimed: whenever a call has reported a failure (partErr ran), its
\* link is still in the page as it was, and no player stands for it.
C5_Claimed ==
    \A l \in Links :
        attempt[l].reported # Null => dom[l] = LinkNode

\* C6 as claimed: no failure leaves embedVideo, so once handlePost has run on
\* the post every candidate link of it has had its call started, and no call
\* threw to handlePost.
C6_Claimed ==
    handled => \A l \in Links : attempt[l].pc \notin {"idle", "threw"}

\* C7 as claimed: a storage error is swallowed.  When saving the title
\* throws, the call goes on to decode the bytes it has, with no further
\* request; when the cache throws in part2, the call is done with its player
\* in the page; and no call ever reports a storage error.
C7_Claimed ==
    \A l \in Links :
        LET a == attempt[l]
        IN  /\ (/\ last.op = "onload"
                /\ last.link = l
                /\ last.met = "title-save-throws") =>
                  /\ a.pc = "decoding"
                  /\ a.limit = last.limit
            /\ (/\ last.op = "loadeddata"
                /\ last.link = l
                /\ last.met \in {"full", "denied"}) =>
                  /\ a.pc = "done"
                  /\ dom[l].tag = "video"
            /\ a.reported \notin {S_quota, S_denied}

\* The versions installed in some behaviour, and the keys of their entries.
Versions == 1..MaxVersion

\* The thumbnail key of each version and URL, and the thumbnail each version
\* renders for each URL.
ThumbKeys == [v \in Versions, u \in URLs |-> ThumbKey(v, u)]

Renderings == [v \in Versions, u \in URLs |-> toDataURL(v, u)]

\* The thumbnail entry of (v, u) in a localStorage.
ThumbEntry(ls, v, u) == getItem(ls, ThumbKeys[v, u])

\* No two (version, url) pairs share a thumbnail key, and no thumbnail key is
\* a title key or the volume key.
KeysSeparate ==
    /\ \A v1 \in Versions, v2 \in Versions, u1 \in URLs, u2 \in URLs :
          ThumbKey(v1, u1) = ThumbKey(v2, u2) => v1 = v2 /\ u1 = u2
    /\ \A v \in Versions, u1 \in URLs, u2 \in URLs :
          /\ ThumbKey(v, u1) # TitleKey(u2)
          /\ ThumbKey(v, u1) # S_webm_volume

\* Every thumbnail a read under version v returns was produced and written
\* under version v, and no version later than the installed one has an entry.
ReadsOwnVersion ==
    \A v \in Versions, u \in URLs :
        LET e == ThumbEntry(localStorage, v, u)
        IN  /\ e = Null \/ e = Renderings[v, u]
            /\ v > THUMB_VERSION => e = Null
            /\ \A w \in Versions : w # v => e # Renderings[w, u]

\* Right after the version was raised, embedVideo on any link finds nothing
\* and issues the LOAD_BYTES1 request, whatever the cache holds.
MissAfterBump ==
    last.op = "update" =>
        \A l \in Links :
            LET r == embedVideo(l, localStorage, THUMB_VERSION, "ok")
            IN  /\ r.a.cachedThumb = Null
                /\ r.a.pc = "fetching"
                /\ r.a.fetches = <<LOAD_BYTES1>>

\* A step deletes no entry and changes no thumbnail entry of a version other
\* than the installed one; a step in which a call stores its thumbnail
\* changes no entry but the one of its URL under the installed version.
OthersUntouched ==
    /\ \A k \in DOMAIN localStorage : k \in DOMAIN localStorage'
    /\ \A v \in Versions, u \in URLs :
          v # THUMB_VERSION =>
              ThumbEntry(localStorage', v, u) = ThumbEntry(localStorage, v, u)
    /\ \A l \in Links :
          attempt'[l].thumbWrites > attempt[l].thumbWrites =>
              \A k \in DOMAIN localStorage :
                  k # ThumbKeys[THUMB_VERSION, Href(l)] =>
                      localStorage'[k] = localStorage[k]

\* C8: thumbnail entries are partitioned by version.  The keys of different
\* versions differ, a read under one version never returns a thumbnail
\* written under another, and after the version was raised the next
\* embedVideo of any link is a cache miss whatever was cached, in every
\* state; and in every step no entry is deleted, thumbnail entries of other
\* versions do not change, and a thumbnail write changes no title, volume or
\* other-version entry.
C8_VersionPartition ==
    /\ [](KeysSeparate /\ ReadsOwnVersion /\ MissAfterBump)
    /\ [][OthersUntouched]_vars

\* A call under version 3 stored its thumbnail while the entry of version 2,
\* a title and a volume were in the cache.
C8_Witness ==
    /\ THUMB_VERSION = 3
    /\ getThumbFromCache(localStorage, 2, UrlA) = toDataURL(2, UrlA)
    /\ getThumbFromCache(localStorage, 3, UrlA) = toDataURL(3, UrlA)
    /\ Truthy(getTitleFromCache(localStorage, UrlA))
    /\ S_webm_volume \in DOMAIN localStorage
    /\ \E l \in Links :
          /\ last.op = "loadeddata" /\ last.link = l
          /\ CacheMiss(l)
          /\ attempt[l].thumbWrites = 1

\* A step changed the thumbnail entry of (v, u).
ThumbChanged(v, u) ==
    ThumbEntry(localStorage', v, u) # ThumbEntry(localStorage, v, u)

\* In this step the call of link l, which found no thumbnail when it started
\* and has decoded its own bytes, stores the thumbnail it made and is done.
StoresOwnThumb(l) ==
    /\ ~Truthy(attempt[l].cachedThumb)
    /\ attempt[l].pc = "decoding"
    /\ attempt[l].fetches # <<>>
    /\ attempt'[l].pc = "done"
    /\ attempt'[l].thumbWrites = attempt[l].thumbWrites + 1
    /\ getThumbFromCache(localStorage', THUMB_VERSION, Href(l)) = dom'[l].poster

\* C9: a call that found a thumbnail at its start never writes the thumbnail
\* entry, and handlePost (where the hit path runs) leaves localStorage as it
\* was; a thumbnail entry changes, and a call's count of writes grows, only
\* in a step where a call that missed stores the thumbnail it made from the
\* bytes it fetched; and a call writes at most once.
C9_HitNeverWrites ==
    /\ [](\A l \in Links :
             /\ attempt[l].thumbWrites \in {0, 1}
             /\ CacheHit(l) => attempt[l].thumbWrites = 0
             /\ attempt[l].thumbWrites = 1 =>
                   /\ CacheMiss(l)
                   /\ attempt[l].pc = "done"
                   /\ attempt[l].decodes >= 1)
    /\ [][/\ \A l \in Links :
             attempt'[l].thumbWrites > attempt[l].thumbWrites =>
                 StoresOwnThumb(l)
       /\ (~handled /\ handled') => localStorage' = localStorage
       /\ \A v \in Versions, u \in URLs :
             ThumbChanged(v, u) =>
                 /\ v = THUMB_VERSION
                 /\ \E l \in Links : Href(l) = u /\ StoresOwnThumb(l)]_vars

\* A call that hit the cache is done beside the entry, which a call of an
\* earlier page load wrote; it has written nothing.
C9_Witness ==
    \E l \in Links :
        /\ last.op = "handlePost"
        /\ CacheHit(l)
        /\ attempt[l].pc = "done"
        /\ attempt[l].thumbWrites = 0
        /\ CachedNow(l) = attempt[l].cachedThumb

\* C10: when a call that missed is done, the cache holds under the installed
\* version and its URL exactly the poster of its player; and when handlePost
\* has run with that entry in the cache (a later load of the page, the
\* version unchanged), the call of every link of that URL hit the cache, is
\* done without a request or a decode, and its player has that same poster,
\* the one the first frame of the video renders to.
C10_MissThenHit ==
    \A l \in Links :
        LET a == attempt[l]
        IN  /\ (CacheMiss(l) /\ a.pc = "done") =>
                  /\ dom[l].tag = "video"
                  /\ Truthy(dom[l].poster)
                  /\ CachedNow(l) = dom[l].poster
            /\ (/\ last.op = "handlePost"
                /\ last.met # "denied"
                /\ Truthy(CachedNow(l))) =>
                  /\ CacheHit(l)
                  /\ a.pc = "done"
                  /\ a.fetches = <<>>
                  /\ a.decodes = 0
                  /\ dom[l].tag = "video"
                  /\ dom[l].poster = CachedNow(l)
            /\ a.pc = "done" =>
                  dom[l].poster = toDataURL(THUMB_VERSION, Href(l))

\* After a reload under version 2, both links hit the entry an earlier call
\* stored and carry its thumbnail.
C10_Witness ==
    /\ THUMB_VERSION = 2
    /\ last = Event("handlePost", 0, 0, "ok")
    /\ \A l \in Links :
          /\ CacheHit(l)
          /\ attempt[l].fetches = <<>>
          /\ dom[l].poster = toDataURL(2, UrlA)
          /\ CachedNow(l) = dom[l].poster

\* C11 as claimed: no link has a second call of embedVideo started on it,
\* whatever scans and refreshes happen, a refresh while its first call is in
\* flight included.
C11_Claimed ==
    \A l \in Links : attempt[l + 2] = Idle

\* C12 as claimed: a call that is done or has failed holds no object URL:
\* every one it created for a decode has been released.
C12_Claimed ==
    \A c \in Calls :
        attempt[c].pc \in {"done", "failed"} => objectURLs(attempt[c]) = 0

\* C13 as claimed: when drawImage throws in makeScreenshot on the frame of
\* the LOAD_BYTES1 bytes, the call reports the failure and ends with that one
\* request.
C13_Claimed ==
    \A l \in Links :
        last = Event("loadeddata", l, LOAD_BYTES1, "draw-throws") =>
            /\ attempt[l].pc = "failed"
            /\ attempt[l].fetches = <<LOAD_BYTES1>>

\* C13 as amended: when drawImage throws on the frame of the LOAD_BYTES1
\* bytes ("cannot decode"), nothing is reported and exactly one LOAD_BYTES2
\* request has been issued and is in flight, the link still in the page; when
\* it throws on the frame of the LOAD_BYTES2 bytes, the call has failed and
\* reported "cannot decode" after its two requests.
C13_RasterErrorEscalates ==
    \A l \in Links :
        LET a == attempt[l]
        IN  /\ last = Event("loadeddata", l, LOAD_BYTES1, "draw-throws") =>
                  /\ a.pc = "fetching"
                  /\ a.limit = LOAD_BYTES2
                  /\ a.fetches = <<LOAD_BYTES1, LOAD_BYTES2>>
                  /\ a.reported = Null
                  /\ dom[l] = LinkNode
            /\ last = Event("loadeddata", l, LOAD_BYTES2, "draw-throws") =>
                  /\ a.pc = "failed"
                  /\ a.fetches = <<LOAD_BYTES1, LOAD_BYTES2>>
                  /\ a.reported = S_cannot_decode
                  /\ dom[l] = LinkNode

C13_Witness ==
    \E l \in Links :
        /\ last = Event("loadeddata", l, LOAD_BYTES1, "draw-throws")
        /\ attempt[l].pc = "fetching"
        /\ attempt[l].decodes = 1
        /\ attempt[l].fetches = <<LOAD_BYTES1, LOAD_BYTES2>>

\* C14: for every prefix of a WebM file, when the Title element and its
\* whole payload lie before the cut, parseTitle returns exactly the text of
\* the title; when the cut lies at or before the first byte of the Title
\* element, parseTitle returns the empty string.
C14_TitleFound ==
    (call.f = "parseTitle" /\ call.pc = "returned") =>
        /\ call.cut >= TitleEnd(call.t, call.w, call.layout) =>
              call.out = [kind |-> "return", title |-> Titles[call.t].text]
        /\ call.cut <= TitleStart(call.t, call.w, call.layout) =>
              call.out = [kind |-> "return", title |-> <<>>]

\* A title of a four-byte character, after a Void that holds the bytes of a
\* Title element, was returned from a file cut right after the title.
C14_Witness ==
    /\ call.f = "parseTitle"
    /\ call.pc = "returned"
    /\ call.layout = 2
    /\ call.cut = TitleEnd(call.t, call.w, call.layout)
    /\ call.out = [kind |-> "return", title |-> <<55357, 56832>>]

\* C15 as claimed: on every buffer, one cut inside an id, a size or the
\* payload of the title (inside a character too), parseTitle returns a
\* title, the part it has read, and throws nothing.
C15_Claimed ==
    (call.f = "parseTitle" /\ call.pc = "returned") =>
        call.out.kind = "return"

\* |a - b|
Distance(a, b) == IF a > b THEN a - b ELSE b - a

AtLeast(x, d) == x.n >= d * TwoTo(x.k)

AtMost(x, y) == x.n * TwoTo(y.k) <= y.n * TwoTo(x.k)

\* hqDownsampleInPlace runs on a source and a target of positive dimensions.
Downsampling ==
    /\ call.f \in {"makeThumbnail", "hqDownsampleInPlace"}
    /\ call.pc # "called"
    /\ call.w >= 1 /\ call.h >= 1 /\ call.dW >= 1 /\ call.dH >= 1

\* C19: on a source and a target of positive dimensions hqDownsampleInPlace
\* returns (it neither loops for ever nor throws); in every pass each current
\* dimension is at least the target's; each pass's dimension is at most half
\* the one before, or is the target's; and the loop goes on after a pass
\* unless both dimensions are the target's, where it returns.
C19_DownsampleTerminates ==
    /\ [](Downsampling =>
             /\ call.passes >= 1 =>
                   /\ AtLeast(call.cW, call.dW)
                   /\ AtLeast(call.cH, call.dH)
             /\ call.pc # "threw"
             /\ call.pc = "returned" <=>
                   /\ call.passes >= 1
                   /\ call.cW = [n |-> call.dW, k |-> 0]
                   /\ call.cH = [n |-> call.dH, k |-> 0])
    /\ [][(Downsampling /\ call.pc = "loop") =>
             /\ call'.passes = call.passes + 1
             /\ \/ AtMost(call'.cW, [n |-> call.cW.n, k |-> call.cW.k + 1])
                \/ call'.cW = [n |-> call.dW, k |-> 0]
             /\ \/ AtMost(call'.cH, [n |-> call.cH.n, k |-> call.cH.k + 1])
                \/ call'.cH = [n |-> call.dH, k |-> 0]]_vars
    /\ (Downsampling ~> (call.pc = "returned"))

\* A source of 33 by 5 was brought to a target of 4 by 7 (one dimension
\* halved four times, the other raised) in four passes.
C19_Witness ==
    /\ call.f = "hqDownsampleInPlace"
    /\ call.pc = "returned"
    /\ call.w = 33 /\ call.h = 5 /\ call.dW = 4 /\ call.dH = 7
    /\ call.passes = 4
    /\ call.src = [width |-> 4, height |-> 7]

\* C17 as claimed: the chunk a request resolves with, from a server that
\* honours its Range header, is no longer than the limit of the request.
C17_Claimed ==
    (call.f = "loadVideoDataFromURL" /\ call.pc = "resolved") =>
        call.length <= call.limit


-----------------------------------------------------------------------------
(* Progress of an attempt.  The host ends every request and every decode:   *)
(* a request by load, error, abort or timeout, a decode by loadeddata or    *)
(* error.  The request of loadVideoDataFromURL has an onload and an onerror *)
(* and nothing else.                                                        *)

\* The request of call l is aborted or times out.  GM_xmlhttpRequest calls
\* onabort or ontimeout, the details object of lines 115-130 has neither:
\* no code of the script runs, neither resolve nor reject is ever called.
FetchAbort(l, how) ==
    LET a == attempt[l]
    IN  /\ a.pc = "fetching"
        /\ attempt' = [attempt EXCEPT ![l] = [a EXCEPT !.pc = "pending"]]
        /\ last' = Event(how, l, a.limit, "no-handler")
        /\ UNCHANGED <<THUMB_VERSION, localStorage, dom, handled, call>>

\* The ways a request can end.
Endings == {"onabort", "ontimeout"}

\* The host ends the request of call l in some way.
RequestEnds(l) ==
    \/ \E status \in Statuses, chunk \in Chunks : FetchLoad(l, status, chunk, "ok")
    \/ FetchError(l)
    \/ \E how \in Endings : FetchAbort(l, how)

\* The host ends the decode of call l in some way.
DecodeEnds(l) ==
    \/ \E drawn \in BOOLEAN : VideoLoaded(l, drawn, "ok")
    \/ VideoError(l)

\* The steps of one page load with a storage that works.
NextLive ==
    \/ HandlePost("ok")
    \/ \E l \in Calls : RequestEnds(l)
    \/ \E l \in Calls : DecodeEnds(l)

\* One page load on which every request and every decode ends.
SpecLive ==
    /\ Init
    /\ [][NextLive]_vars
    /\ WF_vars(HandlePost("ok"))
    /\ \A l \in Calls : WF_vars(RequestEnds(l)) /\ WF_vars(DecodeEnds(l))

\* C18 as claimed: every attempt that is fetching or decoding eventually is
\* done (the player applied) or failed (the failure reported).
C18_Claimed ==
    \A c \in Calls :
        (attempt[c].pc \in {"fetching", "decoding"})
            ~> (attempt[c].pc \in {"done", "failed"})

-----------------------------------------------------------------------------
(* The title of a call that missed.                                         *)

\* The title entry of link l's URL.
TitleNow(l) == getTitleFromCache(localStorage, Href(l))

\* A call that missed and whose last scan returned a title has that title in
\* the cache under its URL from the start of its decode on, and the player
\* it applied is labelled with it.
TitlePersisted ==
    \A l \in Links :
        LET a == attempt[l]
        IN  (CacheMiss(l) /\ Truthy(a.scanned)) =>
                /\ a.pc = "decoding" => TitleNow(l) = a.scanned
                /\ a.pc = "done" =>
                      /\ TitleNow(l) = a.scanned
                      /\ dom[l].tag = "video"
                      /\ dom[l].title = a.scanned \o S_bar \o Href(l)

\* A step in which the scan of a call returns the empty string writes no
\* title: the title entries are what they were.
EmptyScanWritesNothing ==
    \A c \in Calls :
        (/\ attempt[c].pc = "fetching"
         /\ attempt'[c].pc = "decoding"
         /\ attempt'[c].scanned = <<>>) =>
            \A url \in URLs :
                getTitleFromCache(localStorage', url)
                    = getTitleFromCache(localStorage, url)

\* C20: in a call that missed and whose title scan returned a non-empty
\* title, the title is in the cache under the link's URL before the player is
\* applied, and the applied player's title starts with it; a scan that
\* returns the empty string writes no title entry and leaves the existing
\* one as it was.
C20_TitleBeforeApply ==
    /\ []TitlePersisted
    /\ [][EmptyScanWritesNothing]_vars

\* Link 1 missed, its scan returned "Hi" and its player is applied with that
\* title; the scan of link 2 then returned the empty string, with the entry
\* "Hi" in the cache.
C20_Witness ==
    /\ CacheMiss(1) /\ attempt[1].pc = "done"
    /\ attempt[1].scanned = <<72, 105>>
    /\ dom[1].title = <<72, 105>> \o S_bar \o UrlA
    /\ CacheMiss(2) /\ attempt[2].pc = "decoding"
    /\ attempt[2].scanned = <<>>
    /\ TitleNow(2) = <<72, 105>>
    /\ last = Event("onload", 2, LOAD_BYTES2, "resolved")

-----------------------------------------------------------------------------
(* The while loop of parseTitle, one iteration in two steps, on buffers     *)
(* whose elements declare their size on 8 bytes.  readInt keeps the low 32  *)
(* bits of such a size, as a signed integer.                                *)

\* Byte k (0 the lowest) of the 32-bit two's complement form of v.
ByteOf(v, k) == (v \div TwoTo(8 * k)) % 256

\* A size on 8 bytes whose low 32 bits are those of the signed v.
EncodeSize8(v) ==
    <<1, 0, 0, 0, ByteOf(v, 3), ByteOf(v, 2), ByteOf(v, 1), ByteOf(v, 0)>>

\* The declared sizes: what readInt returns for them.
DeclaredSizes ==
    {0 - n : n \in 1..16} \cup {0, 3, 2147483647}

\* What precedes the element: nothing, or an EBML header of one byte.
Prefixes == {<<>>, Element(IdEBML, 1, <<66>>)}

\* Elements the scan skips by their size.
SkippedIds == {IdVoid, IdTimecodeScale}

\* What follows the element: nothing, or the Title "Hi".
Tails == {<<>>, TitleElement(2, 1)}

\* The buffers: a prefix, an element that declares its size on 8 bytes with
\* no payload, a tail.
Buffers ==
    {prefix \o id \o EncodeSize8(v) \o tail :
        prefix \in Prefixes, id \in SkippedIds, v \in DeclaredSizes,
        tail \in Tails}

\* parseTitle(data) is entered: i, element and size are 0.
InitScan ==
    /\ InitScript
    /\ \E data \in Buffers :
          call = [f |-> "parseTitle.while", data |-> data, i |-> 0,
                  element |-> 0, size |-> 0, pc |-> "while",
                  out |-> [kind |-> "none", title |-> <<>>]]

\* The indices the scan of a buffer can be at: a skip from inside one of
\* these buffers goes back by 16 at most.
Indices(data) == (0 - 16)..(Len(data) + 1)

\* element = readInt(); size = readInt(); at every index of every buffer:
\* the two integers and the index after them.
ReadAt ==
    [data \in Buffers |->
        [i \in Indices(data) |->
            LET element == readInt(data, i)
                size == readInt(data, element.i)
            IN  [element |-> element.n, size |-> size.n, i |-> size.i]]]

\* The test of the while loop and the two readInt calls: the loop's
\* variables after them.
whileTest(c) ==
    IF ~(c.i < Len(c.data))
    THEN [c EXCEPT !.pc = "returned",
                   !.out = [kind |-> "return", title |-> <<>>]]
    ELSE LET r == ReadAt[c.data][c.i]
         IN  [c EXCEPT !.pc = "read", !.i = r.i,
                       !.element = r.element, !.size = r.size]

\* The rest of the iteration: the title is read and returned, or the element
\* is skipped by its size, or the scan goes into it.
whileBody(c) ==
    IF c.element = ElementTitle
    THEN LET bytes == SubSeq(c.data, c.i + 1,
                             c.i + TitleBytes(c.data, c.i, c.size))
         IN  IF Utf8Valid(bytes, 1)
             THEN [c EXCEPT !.pc = "returned",
                            !.out = [kind |-> "return",
                                     title |-> Utf8Decode(bytes, 1)]]
             ELSE [c EXCEPT !.pc = "threw",
                            !.out = [kind |-> "throw",
                                     title |-> S_URI_malformed]]
    ELSE IF c.element # ElementSegment /\ c.element # ElementInfo
    THEN [c EXCEPT !.pc = "while", !.i = Skip(c.data, c.i, c.size)]
    ELSE [c EXCEPT !.pc = "while"]

\* The loop is at its test.
ReadElement ==
    /\ call.f = "parseTitle.while"
    /\ call.pc = "while"
    /\ call' = whileTest(call)
    /\ UNCHANGED <<THUMB_VERSION, localStorage, dom, attempt, handled, last>>

\* The loop has read an element's id and size.
Dispatch ==
    /\ call.f = "parseTitle.while"
    /\ call.pc = "read"
    /\ call' = whileBody(call)
    /\ UNCHANGED <<THUMB_VERSION, localStorage, dom, attempt, handled, last>>

NextScan ==
    \/ ReadElement
    \/ Dispatch

\* The loop runs on as long as it has a step to take.
SpecScan == InitScan /\ [][NextScan]_vars /\ WF_vars(NextScan)

\* C21 as claimed: parseTitle ends on every buffer: the loop reaches the end
\* of the buffer or the title element.
C21_Claimed == <>(call.pc \in {"returned", "threw"})

-----------------------------------------------------------------------------
(* Calls for links of one URL that run at the same time.                    *)

\* In this step the call of link l writes a thumbnail entry.
WritesThumb(l) == attempt'[l].thumbWrites > attempt[l].thumbWrites

\* C22 as claimed: a call writes the thumbnail entry of (THUMB_VERSION, url)
\* only when the entry is absent at the moment of the write, so that an entry
\* is never overwritten.
C22_Claimed ==
    [][\A l \in Links : WritesThumb(l) => ~Truthy(CachedNow(l))]_vars

\* C22: what decides the write is the entry the call read when it started:
\* every call that found none and is done has written the entry once,
\* whatever the cache holds when it writes, and a call writes only if it
\* found none when it started.
C22_WriteDecidedAtStart ==
    /\ [](\A l \in Links :
             (CacheMiss(l) /\ attempt[l].pc = "done") =>
                 attempt[l].thumbWrites = 1)
    /\ [][\A l \in Links :
             WritesThumb(l) =>
                 /\ ~Truthy(attempt[l].cachedThumb)
                 /\ attempt'[l].thumbWrites = 1]_vars

\* Both links of one URL missed at their start and both have written the
\* entry: the second write found the entry of the first.
C22_Witness ==
    /\ \A l \in Links :
          /\ CacheMiss(l)
          /\ attempt[l].pc = "done"
          /\ attempt[l].thumbWrites = 1
    /\ Href(1) = Href(2)
    /\ Truthy(CachedNow(1))
    /\ last.op = "loadeddata"

-----------------------------------------------------------------------------
(* The layout of a post with players.  createVideoElement reads the         *)
(* max-height of the post's body and of its attachment box when it is       *)
(* called and keeps them in bodyHeight and attachHeight, the variables its  *)
(* player's minimize writes back.  A post has its links as its players to   *)
(* be: each is applied by its own call, at any time.                        *)

\* "none"
S_none ==
    <<110, 111, 110, 101>>

\* "300px"
S_300px ==
    <<51, 48, 48, 112, 120>>

\* "120px"
S_120px ==
    <<49, 50, 48, 112, 120>>

\* The max-height the page gives a post's body: none set, or a limit.
BodyHeights == {<<>>, S_300px}

\* The max-height of the attachment box; Null: the post has no such box.
AttachHeights == {Null, <<>>, S_120px}

\* A link that has no player yet.
NoPlayer ==
    [created |-> FALSE, controls |-> FALSE, bodyHeight |-> Null,
     attachHeight |-> Null]

\* A post as the page shows it first.
InitLayout ==
    /\ InitScript
    /\ \E b \in BodyHeights, t \in AttachHeights :
          call = [f |-> "createVideoElement", body0 |-> b, attach0 |-> t,
                  body |-> b, attachments |-> t,
                  players |-> [l \in Links |-> NoPlayer]]

\* createVideoElement(post, link, thumbnail) and the replaceChild of part2:
\* the player of link l is in the page, minimized, with the two heights read
\* now.
Apply(l) ==
    /\ call.f = "createVideoElement"
    /\ ~call.players[l].created
    /\ call' = [call EXCEPT
                  !.players[l] = [created |-> TRUE, controls |-> FALSE,
                                  bodyHeight |-> call.body,
                                  attachHeight |-> call.attachments]]
    /\ UNCHANGED <<THUMB_VERSION, localStorage, dom, attempt, handled, last>>

\* expand() of the player of link l.
expand(c, l) ==
    [c EXCEPT !.attachments = IF @ # Null THEN S_none ELSE @,
              !.body = S_none,
              !.players[l].controls = TRUE]

\* minimize() of the player of link l.
minimize(c, l) ==
    [c EXCEPT !.attachments = IF @ # Null THEN c.players[l].attachHeight ELSE @,
              !.body = c.players[l].bodyHeight,
              !.players[l].controls = FALSE]

\* A click on the video of link l, above its controls when it has them.
Click(l) ==
    /\ call.f = "createVideoElement"
    /\ call.players[l].created
    /\ call' = IF call.players[l].controls THEN minimize(call, l)
               ELSE expand(call, l)
    /\ UNCHANGED <<THUMB_VERSION, localStorage, dom, attempt, handled, last>>

NextLayout ==
    \/ \E l \in Links : Apply(l)
    \/ \E l \in Links : Click(l)

SpecLayout == InitLayout /\ [][NextLayout]_vars

\* C23 as claimed: whenever the post has players and all of them are
\* minimized, the max-height of its body and of its attachment box are what
\* they were before any player was created.
C23_Claimed ==
    (/\ call.f = "createVideoElement"
     /\ \E l \in Links : call.players[l].created
     /\ \A l \in Links : ~call.players[l].controls) =>
        /\ call.body = call.body0
        /\ call.attachments = call.attach0

====
